---- MODULE Spec2Model ----
(***************************************************************************)
(* URL boundary scanner of linkify (src/src/url.rs): UrlScanner::scan,     *)
(* find_start and find_end, over UTF-8 texts addressed by byte offset.     *)
(* A text is a sequence of characters; a character is a token whose        *)
(* Unicode scalar value is given by CodePoint.                             *)
(***************************************************************************)
EXTENDS Integers, Sequences, FiniteSets, TLC

VARIABLES s, separator, no_proto, pc, result

vars == <<s, separator, no_proto, pc, result>>

\* ------------------------------------------------------------------------
\* Characters and UTF-8
\* ------------------------------------------------------------------------

\* Unicode scalar value of every character the model's texts use.
CodePoint ==
  ("NUL" :> 0) @@ ("TAB" :> 9) @@ ("US" :> 31) @@ (" " :> 32) @@ ("!" :> 33) @@
  ("dquote" :> 34) @@ ("#" :> 35) @@ ("'" :> 39) @@ ("(" :> 40) @@ (")" :> 41) @@
  ("+" :> 43) @@ ("," :> 44) @@ ("-" :> 45) @@ ("." :> 46) @@ ("/" :> 47) @@
  ("0" :> 48) @@ ("1" :> 49) @@ ("2" :> 50) @@ ("9" :> 57) @@ (":" :> 58) @@
  (";" :> 59) @@ ("<" :> 60) @@ (">" :> 62) @@ ("?" :> 63) @@ ("@" :> 64) @@
  ("A" :> 65) @@ ("Z" :> 90) @@ ("[" :> 91) @@ ("]" :> 93) @@ ("backtick" :> 96) @@
  ("a" :> 97) @@ ("b" :> 98) @@ ("c" :> 99) @@ ("m" :> 109) @@ ("o" :> 111) @@
  ("z" :> 122) @@ ("{" :> 123) @@ ("}" :> 125) @@ ("~" :> 126) @@
  ("DEL" :> 127) @@ ("U+0080" :> 128) @@ ("U+009F" :> 159) @@
  ("U+00A0" :> 160) @@ ("U+00A1" :> 161) @@
  ("a-umlaut" :> 228) @@ ("c-cedilla" :> 231) @@ ("e-acute" :> 233) @@
  ("i-circumflex" :> 238) @@ ("eth" :> 240) @@ ("n-tilde" :> 241) @@
  ("o-stroke" :> 248) @@ ("u-umlaut" :> 252) @@ ("sho" :> 1016) @@
  ("euro" :> 8364) @@ ("grinning-face" :> 128512)

\* char::len_utf8: the number of bytes of the character's UTF-8 encoding.
len_utf8(c) ==
  IF CodePoint[c] < 128 THEN 1
  ELSE IF CodePoint[c] < 2048 THEN 2
  ELSE IF CodePoint[c] < 65536 THEN 3
  ELSE 4

\* Byte offset of the k-th character of str (k = Len(str) + 1: the length).
RECURSIVE ByteOffset(_, _)
ByteOffset(str, k) ==
  IF k <= 1 THEN 0 ELSE ByteOffset(str, k - 1) + len_utf8(str[k - 1])

\* str::len: the length of the text in bytes.
ByteLen(str) == ByteOffset(str, Len(str) + 1)

\* str::is_char_boundary: slicing at any other byte offset panics.
is_char_boundary(str, b) ==
  \E k \in 1..(Len(str) + 1) : ByteOffset(str, k) = b

\* Index of the character that starts at byte offset b (a char boundary).
CharAt(str, b) == CHOOSE k \in 1..(Len(str) + 1) : ByteOffset(str, k) = b

\* &str[b..] and &str[0..b], for b on a char boundary.
SliceFrom(str, b) == SubSeq(str, CharAt(str, b), Len(str))
SliceTo(str, b) == SubSeq(str, 1, CharAt(str, b) - 1)

\* str::starts_with
starts_with(str, pat) ==
  Len(str) >= Len(pat) /\ SubSeq(str, 1, Len(pat)) = pat

\* Option<usize>
None == [some |-> FALSE]
Some(x) == [some |-> TRUE, val |-> x]

\* ------------------------------------------------------------------------
\* find_start
\* ------------------------------------------------------------------------

IsAsciiLetter(c) ==
  \/ CodePoint[c] \in CodePoint["a"]..CodePoint["z"]
  \/ CodePoint[c] \in CodePoint["A"]..CodePoint["Z"]

IsAsciiDigit(c) == CodePoint[c] \in CodePoint["0"]..CodePoint["9"]

\* FindStartStep without the arm for `:` and `/`: they end the loop with
\* either setting of no_proto.
FindStartStepSchemeOnly(np, st, i, c) ==
  IF IsAsciiLetter(c) THEN [st EXCEPT !.first = Some(i)]
  ELSE IF IsAsciiDigit(c) THEN [st EXCEPT !.digit = Some(i)]
  ELSE IF c \in {"+", "-", "."} THEN st
  ELSE [st EXCEPT !.stop = TRUE]

\* FindStartStep with first set by the first letter met only, the one
\* next to the separator.
FindStartStepKeepFirst(np, st, i, c) ==
  IF IsAsciiLetter(c)
  THEN [st EXCEPT !.first = IF st.first.some THEN @ ELSE Some(i)]
  ELSE IF IsAsciiDigit(c) THEN [st EXCEPT !.digit = Some(i)]
  ELSE IF c \in {":", "/"} /\ np THEN [st EXCEPT !.digit = Some(i)]
  ELSE IF c \in {"+", "-", "."} THEN st
  ELSE [st EXCEPT !.stop = TRUE]

\* One iteration of the backward loop: the match on the character c at
\* byte offset i. stop is the break.
FindStartStep(np, st, i, c) ==
  IF IsAsciiLetter(c) THEN [st EXCEPT !.first = Some(i)]
  ELSE IF IsAsciiDigit(c) THEN [st EXCEPT !.digit = Some(i)]
  ELSE IF c \in {":", "/"} /\ np THEN [st EXCEPT !.digit = Some(i)]
  ELSE IF c \in {"+", "-", "."} THEN st
  ELSE [st EXCEPT !.stop = TRUE]

\* for (i, c) in s.char_indices().rev(), from character k down to the first.
RECURSIVE FindStartLoop(_, _, _, _)
FindStartLoop(np, str, k, st) ==
  IF k < 1 THEN st
  ELSE LET st2 == FindStartStep(np, st, ByteOffset(str, k), str[k])
       IN IF st2.stop THEN st2 ELSE FindStartLoop(np, str, k - 1, st2)

\* The check after the loop: a digit just before the first letter.
FindStartResult(st) ==
  IF st.first.some /\ st.digit.some
     /\ st.first.val > 0 /\ st.first.val - 1 = st.digit.val
  THEN None
  ELSE st.first

find_start(np, str) ==
  FindStartResult(
    FindStartLoop(np, str, Len(str),
                  [first |-> None, digit |-> None, stop |-> FALSE]))

\* ------------------------------------------------------------------------
\* find_end
\* ------------------------------------------------------------------------

\* IsIllegal without the backtick.
IsIllegalNoBacktick(c) ==
  \/ CodePoint[c] \in CodePoint["NUL"]..CodePoint["US"]
  \/ c \in {" ", "dquote", "<", ">"}
  \/ CodePoint[c] \in CodePoint["DEL"]..CodePoint["U+009F"]

\* Characters that can never be part of an URL.
IsIllegal(c) ==
  \/ CodePoint[c] \in CodePoint["NUL"]..CodePoint["US"]
  \/ c \in {" ", "dquote", "<", ">", "backtick"}
  \/ CodePoint[c] \in CodePoint["DEL"]..CodePoint["U+009F"]

\* IsSoft without the semicolon.
IsSoftNoSemicolon(c) == c \in {"?", "!", ".", ",", ":"}

\* Characters that may be part of an URL but not at its end.
IsSoft(c) == c \in {"?", "!", ".", ",", ":", ";"}

\* CloseBracket with one counter, round, for the three kinds of bracket.
CloseBracketRound(st, counter) ==
  LET st2 == [st EXCEPT !.round = @ - 1]
  IN IF st2.round < 0
     THEN [st2 EXCEPT !.stop = TRUE]
     ELSE [st2 EXCEPT !.can_be_last = TRUE]

\* A closing bracket: the counter is decremented, and a negative counter
\* stops the loop before can_be_last is set.
CloseBracket(st, counter) ==
  LET st2 == [st EXCEPT ![counter] = @ - 1]
  IN IF st2[counter] < 0
     THEN [st2 EXCEPT !.stop = TRUE]
     ELSE [st2 EXCEPT !.can_be_last = TRUE]

\* SingleQuote with a quote that can always be last.
SingleQuoteAlwaysLast(st) ==
  [st EXCEPT !.single_quote = ~@, !.can_be_last = TRUE]

\* A single quote toggles the flag and can be last when the flag is then
\* false, that is when the number of quotes so far is even.
SingleQuote(st) ==
  [st EXCEPT !.single_quote = ~@, !.can_be_last = st.single_quote]

\* The match on the character c: the counters, the quote flag, can_be_last
\* and the break (stop).
FindEndMatch(st, c) ==
  IF IsIllegal(c) THEN [st EXCEPT !.stop = TRUE]
  ELSE IF IsSoft(c) THEN [st EXCEPT !.can_be_last = FALSE]
  ELSE IF c = "/" THEN [st EXCEPT !.can_be_last = st.previous_can_be_last]
  ELSE IF c = "(" THEN [st EXCEPT !.round = @ + 1, !.can_be_last = FALSE]
  ELSE IF c = ")" THEN CloseBracket(st, "round")
  ELSE IF c = "[" THEN [st EXCEPT !.square = @ + 1, !.can_be_last = FALSE]
  ELSE IF c = "]" THEN CloseBracket(st, "square")
  ELSE IF c = "{" THEN [st EXCEPT !.curly = @ + 1, !.can_be_last = FALSE]
  ELSE IF c = "}" THEN CloseBracket(st, "curly")
  ELSE IF c = "'" THEN SingleQuote(st)
  ELSE [st EXCEPT !.can_be_last = TRUE]

\* FindEndStep with the end recorded at the offset of the character instead
\* of the offset after it.
FindEndStepEndAtChar(st, i, c) ==
  LET m == FindEndMatch(st, c)
  IN IF m.stop THEN m
     ELSE [m EXCEPT !.end = IF m.can_be_last THEN Some(i) ELSE @,
                    !.previous_can_be_last = m.can_be_last]

\* One iteration of the forward loop on the character c at byte offset i.
FindEndStep(st, i, c) ==
  LET m == FindEndMatch(st, c)
  IN IF m.stop THEN m
     ELSE [m EXCEPT !.end = IF m.can_be_last THEN Some(i + len_utf8(c)) ELSE @,
                    !.previous_can_be_last = m.can_be_last]

\* for (i, c) in s.char_indices(), from character k on.
RECURSIVE FindEndLoop(_, _, _)
FindEndLoop(str, k, st) ==
  IF k > Len(str) THEN st
  ELSE LET st2 == FindEndStep(st, ByteOffset(str, k), str[k])
       IN IF st2.stop THEN st2 ELSE FindEndLoop(str, k + 1, st2)

FindEndInit ==
  [round |-> 0, square |-> 0, curly |-> 0, single_quote |-> FALSE,
   previous_can_be_last |-> TRUE, end |-> None,
   can_be_last |-> FALSE, stop |-> FALSE]

find_end(str) == FindEndLoop(str, 1, FindEndInit).end

\* ------------------------------------------------------------------------
\* scan
\* ------------------------------------------------------------------------

SchemeSeparator == <<":", "/", "/">>
DotSeparator == <<".">>

\* The outcomes of a call: Option<Range<usize>>, or the panic of slicing a
\* str off a char boundary.
NoMatch == [kind |-> "none"]
Span(start, end) == [kind |-> "span", start |-> start, end |-> end]
Panic == [kind |-> "panic"]

scan(np, str, sep) ==
  IF sep = 0 THEN NoMatch
  ELSE IF ~is_char_boundary(str, sep) THEN Panic
  ELSE
    LET rest == SliceFrom(str, sep)
        separator_str ==
          IF starts_with(rest, SchemeSeparator) THEN SchemeSeparator
          ELSE IF starts_with(rest, DotSeparator) THEN DotSeparator
          ELSE <<>>
        after_separator == sep + ByteLen(separator_str)
    IN IF separator_str = <<>> THEN NoMatch
       ELSE IF after_separator < ByteLen(str)
       THEN LET start == find_start(np, SliceTo(str, sep))
            IN IF start.some
               THEN LET end == find_end(SliceFrom(str, after_separator))
                    IN IF end.some
                       THEN Span(start.val, after_separator + end.val)
                       ELSE NoMatch
               ELSE NoMatch
       ELSE NoMatch

\* ------------------------------------------------------------------------
\* Inputs
\* ------------------------------------------------------------------------

\* All sequences over chars of length at most n.
RECURSIVE SeqsUpTo(_, _)
SeqsUpTo(chars, n) ==
  IF n = 0 THEN {<<>>}
  ELSE LET shorter == SeqsUpTo(chars, n - 1)
       IN shorter \cup {Append(t, c) : t \in shorter, c \in chars}

\* Texts made of a left part, a middle and a right part.
Texts(lefts, mids, rights) ==
  {l \o m \o r : l \in lefts, m \in mids, r \in rights}

MaxLeft == 2
MaxRight == 2

LeftChars == {"a", "1", "/", "u-umlaut"}
RightChars == {"b", ".", "/", " ", "euro"}
Middles == {SchemeSeparator, DotSeparator}

\* "üñîçøðé.com/ä" (tests/url.rs, international_without_protocol)
IntlText ==
  <<"u-umlaut", "n-tilde", "i-circumflex", "c-cedilla", "o-stroke", "eth",
    "e-acute", ".", "c", "o", "m", "/", "a-umlaut">>

GeneralTexts ==
  Texts(SeqsUpTo(LeftChars, MaxLeft), Middles, SeqsUpTo(RightChars, MaxRight))
    \cup {IntlText}

\* ------------------------------------------------------------------------
\* The state machine: one call of scan on an input
\* ------------------------------------------------------------------------

Pending == [kind |-> "pending"]

\* A scanner with either setting of no_proto, before the call.
InitScanner ==
  /\ no_proto \in BOOLEAN
  /\ pc = "call"
  /\ result = Pending

\* Every byte offset that indexes into the text (0 for the empty text).
AllOffsets(str) == 0..(IF ByteLen(str) = 0 THEN 0 ELSE ByteLen(str) - 1)

\* The byte offsets at which the text has a separator literal.
SeparatorOffsets(str) ==
  {ByteOffset(str, k) :
     k \in {j \in 1..Len(str) :
              \/ starts_with(SubSeq(str, j, Len(str)), SchemeSeparator)
              \/ starts_with(SubSeq(str, j, Len(str)), DotSeparator)}}

\* A call on one of the texts at any offset that indexes into it.
InitAtAnyOffset(texts) ==
  /\ s \in texts
  /\ separator \in AllOffsets(s)
  /\ InitScanner

\* A call on one of the texts at one of its separator literals.
InitAtSeparator(texts) ==
  /\ s \in texts
  /\ separator \in SeparatorOffsets(s)
  /\ InitScanner

Init == InitAtAnyOffset(GeneralTexts)

Scan ==
  /\ pc = "call"
  /\ result' = scan(no_proto, s, separator)
  /\ pc' = "done"
  /\ UNCHANGED <<s, separator, no_proto>>

Next == Scan

Spec == Init /\ [][Next]_vars

\* Calls at a separator literal, over the texts left of it: letters,
\* digits, scheme characters, `/`, `:` and a space, followed by `b`.
MaxStart == 3

StartChars == {"a", "Z", "1", "9", ".", "+", "/", ":", " "}

StartTexts ==
  Texts(SeqsUpTo(StartChars, MaxStart), {SchemeSeparator, DotSeparator},
        {<<"b">>})

InitStart == InitAtSeparator(StartTexts)

SpecStart == InitStart /\ [][Next]_vars

\* Calls at a separator literal after the scheme or host `a`, over the
\* texts right of it.
EndTexts(chars, n) ==
  Texts({<<"a">>}, {SchemeSeparator, DotSeparator}, SeqsUpTo(chars, n))

\* Single quotes among a letter, soft punctuation, a slash, a closing
\* bracket and a space.
MaxQuote == 4

QuoteChars == {"a", "'", ".", "/", ")", " "}

InitQuote == InitAtSeparator(EndTexts(QuoteChars, MaxQuote))

SpecQuote == InitQuote /\ [][Next]_vars

\* The three kinds of bracket among a letter and a slash.
MaxBracket == 4

BracketChars == {"a", "(", ")", "[", "]", "{", "}", "/"}

InitBracket == InitAtSeparator(EndTexts(BracketChars, MaxBracket))

SpecBracket == InitBracket /\ [][Next]_vars

\* Soft punctuation and opening brackets among a letter, a slash and a
\* closing bracket.
MaxPunct == 3

PunctChars ==
  {"?", "!", ".", ",", ":", ";", "(", "[", "{", "a", "/", ")"}

InitPunct == InitAtSeparator(EndTexts(PunctChars, MaxPunct))

SpecPunct == InitPunct /\ [][Next]_vars

\* Illegal characters (the ends of both ranges and the five listed ones)
\* among their legal neighbours, also left of the scheme.
MaxIllegal == 3

IllegalChars ==
  {"NUL", "US", " ", "dquote", "<", ">", "backtick", "DEL", "U+009F",
   "a", "U+00A0"}

IllegalTexts ==
  Texts({<<"a">>, <<" ", "a">>},
        {SchemeSeparator, DotSeparator}, SeqsUpTo(IllegalChars, MaxIllegal))

InitIllegal == InitAtSeparator(IllegalTexts)

SpecIllegal == InitIllegal /\ [][Next]_vars

\* Calls at the `://` and at the `.` of texts of the form
\* scheme `://` label `.` label, the three parts made of letters and
\* digits, at the start of the text or after a space.
MaxLabel == 2

LabelChars == {"a", "1"}

Labels == SeqsUpTo(LabelChars, MaxLabel) \ {<<>>}

MixedTexts ==
  Texts({<<>>, <<" ">>},
        Texts(Labels, {SchemeSeparator}, Texts(Labels, {DotSeparator}, Labels)),
        {<<>>})

InitMixed == InitAtSeparator(MixedTexts)

SpecMixed == InitMixed /\ [][Next]_vars


\* ------------------------------------------------------------------------
\* Properties of a finished call
\* ------------------------------------------------------------------------

Done == pc = "done"
Matched == Done /\ result.kind = "span"

\* The separator literal the text has at the offset of the call, <<>> when
\* it has none there.
SeparatorAt ==
  IF ~is_char_boundary(s, separator) THEN <<>>
  ELSE IF starts_with(SliceFrom(s, separator), SchemeSeparator)
       THEN SchemeSeparator
  ELSE IF starts_with(SliceFrom(s, separator), DotSeparator)
       THEN DotSeparator
  ELSE <<>>

\* The offset just after the separator, and the text from there on.
AfterSeparator == separator + ByteLen(SeparatorAt)
Rest == SliceFrom(s, AfterSeparator)

\* C1: whenever scan returns a span [start, end), then
\* 0 <= start < separator < end <= len(text), both ends are char boundaries,
\* the text has `://` or `.` at the separator offset, and end is strictly
\* greater than the offset just after that separator literal, so that the
\* span contains the literal.
C1_SpanAroundSeparator ==
  Matched =>
    /\ 0 <= result.start
    /\ result.start < separator
    /\ separator < result.end
    /\ result.end <= ByteLen(s)
    /\ is_char_boundary(s, result.start)
    /\ is_char_boundary(s, result.end)
    /\ SeparatorAt # <<>>
    /\ SeparatorAt = SchemeSeparator => result.end > separator + 3
    /\ SeparatorAt = DotSeparator => result.end > separator + 1

\* A span around `://` that starts after the start of the text, behind a
\* two-byte character, and ends before the end of the text.
C1_Witness ==
  /\ Matched
  /\ SeparatorAt = SchemeSeparator
  /\ s[1] = "u-umlaut"
  /\ result.start = 2
  /\ result.end < ByteLen(s)

\* C2: scan has exactly two outcomes, a span or no-match, for every text
\* and every byte offset that indexes into the text.
C2_SpanOrNoMatch == Done => result.kind \in {"span", "none"}

\* C6: with the scheme required (no_proto = FALSE) a `.` at the separator
\* offset never yields a span, and with the scheme optional the text
\* `a.b/` (standing for `example.org/`) is matched in full.
C6_DotNeedsNoProto ==
  /\ (Done /\ ~no_proto /\ SeparatorAt = DotSeparator)
       => result.kind # "span"
  /\ (Done /\ no_proto /\ s = <<"a", ".", "b", "/">> /\ separator = 1)
       => result = Span(0, 4)

\* C9: with the scheme optional, scanning IntlText at its `.` (byte offset
\* 14) yields the span of the whole text.
C9_InternationalHost ==
  (Done /\ no_proto /\ s = IntlText /\ separator = 14)
    => result = Span(0, ByteLen(IntlText))


\* The index of the character of the text that starts at byte offset b.
CharIndex(b) == CharAt(s, b)

\* C3: for a `://` separator the character immediately before the returned
\* start is never an ASCII digit, and in `1.a://b` the `.` between the digit
\* and the letter does not invalidate the scheme. The claim is for either
\* setting of no_proto; it is stated here for the default one, FALSE.
C3_NoDigitBeforeStart ==
  /\ (Matched /\ ~no_proto /\ SeparatorAt = SchemeSeparator
         /\ result.start > 0)
       => CodePoint[s[CharIndex(result.start) - 1]] \notin 48..57
  /\ (Done /\ s = <<"1", ".", "a", ":", "/", "/", "b">> /\ separator = 3)
       => result = Span(2, 7)

\* C10: for a `://` separator and either setting of no_proto, the returned
\* start is right of every `/` and every `:` in the text left of the
\* separator.
C10_SlashAndColonEndTheScheme ==
  (Matched /\ SeparatorAt = SchemeSeparator) =>
    \A k \in 1..Len(s) :
      (ByteOffset(s, k) < separator /\ s[k] \in {"/", ":"})
        => result.start > ByteOffset(s, k)


\* The call reached find_end: the text has a separator literal at the
\* offset, something follows it, and find_start found a start.
EndScanned ==
  /\ Done
  /\ separator > 0
  /\ SeparatorAt # <<>>
  /\ AfterSeparator < ByteLen(s)
  /\ find_start(no_proto, SliceTo(s, separator)).some

\* The number of characters of str that are in set.
RECURSIVE Count(_, _)
Count(str, set) ==
  IF str = <<>> THEN 0
  ELSE Count(SubSeq(str, 2, Len(str)), set) + (IF Head(str) \in set THEN 1 ELSE 0)

\* The length of the run of single quotes that str ends in.
RECURSIVE TrailingQuotes(_)
TrailingQuotes(str) ==
  IF str = <<>> \/ str[Len(str)] # "'" THEN 0
  ELSE 1 + TrailingQuotes(SubSeq(str, 1, Len(str) - 1))

\* The part of str before the run of single quotes it ends in.
BeforeQuotes(str) == SubSeq(str, 1, Len(str) - TrailingQuotes(str))

\* The scalar values of the characters that stop an URL.
IllegalCodePoints == (0..31) \cup {32, 34, 60, 62, 96} \cup (127..159)

NoIllegalIn(str) ==
  \A k \in 1..Len(str) : CodePoint[str[k]] \notin IllegalCodePoints

\* No prefix of str has more closing than opening brackets of a kind.
Balanced(str) ==
  \A j \in 1..Len(str) :
    /\ Count(SubSeq(str, 1, j), {")"}) <= Count(SubSeq(str, 1, j), {"("})
    /\ Count(SubSeq(str, 1, j), {"]"}) <= Count(SubSeq(str, 1, j), {"["})
    /\ Count(SubSeq(str, 1, j), {"}"}) <= Count(SubSeq(str, 1, j), {"{"})

\* The law of C4 for a text that ends in a run of n >= 1 single quotes: for
\* even n the text is matched in full; for odd n the final quote is not
\* matched, and the run up to it is (for n >= 3 the match ends just before
\* the final quote).
QuoteParityLaw ==
  IF TrailingQuotes(Rest) % 2 = 0
  THEN result = Span(result.start, ByteLen(s))
  ELSE /\ result.kind = "span" => result.end < ByteLen(s)
       /\ TrailingQuotes(Rest) >= 3 =>
            result = Span(result.start, ByteLen(s) - 1)

\* A text scanned by find_end that ends in a run of single quotes, with no
\* character that stops the scan: no illegal character and no closing
\* bracket in excess of its openers.
EndsInQuotes ==
  /\ EndScanned
  /\ TrailingQuotes(Rest) >= 1
  /\ NoIllegalIn(Rest)
  /\ Balanced(Rest)

\* C4 as claimed: every text scanned by find_end that ends in a run of
\* n >= 1 single quotes, with no terminating character, obeys the law.
C4_QuoteParity == EndsInQuotes => QuoteParityLaw

\* C4 as amended: every such text with an even number of single quotes
\* before the run obeys the law.
C4_QuoteParityEvenBefore ==
  (EndsInQuotes /\ Count(BeforeQuotes(Rest), {"'"}) % 2 = 0) => QuoteParityLaw

\* A text ending in a run of three single quotes, with none or two before
\* the run, is matched up to the final quote.
C4_Witness ==
  /\ EndsInQuotes
  /\ Rest = <<"'", "'", "a", "'", "'", "'">> \/ Rest = <<"a", "'", "'", "'">>
  /\ result.kind = "span"
  /\ result.end = ByteLen(s) - 1

\* The matched text after the separator.
MatchedRest ==
  SubSeq(s, CharIndex(AfterSeparator), CharIndex(result.end) - 1)

\* C5: in the matched text after the separator no prefix contains more `)`
\* than `(`, more `]` than `[` or more `}` than `{`, each kind counted on
\* its own; the match ends before the first closing bracket in excess.
C5_BracketBalance == Matched => Balanced(MatchedRest)

\* `(a))` after the separator (as in `(http://example.org/a(b)))`) is
\* matched through `(a)`, and so is `[(])` in full: the kinds do not mix.
C5_Witness ==
  /\ Matched
  /\ \/ Rest = <<"(", "a", ")", ")">> /\ MatchedRest = <<"(", "a", ")">>
     \/ Rest = <<"a", "(", "a", ")", ")">>
          /\ MatchedRest = <<"a", "(", "a", ")">>

\* The last character of the span.
LastChar == s[CharIndex(result.end) - 1]

\* C7: the last character of a span is none of ? ! . , : ; nor an opening
\* bracket.
C7_NoSoftLast ==
  Matched => LastChar \notin {"?", "!", ".", ",", ":", ";", "(", "[", "{"}

\* A span with soft punctuation inside it and soft punctuation right after
\* it, left out.
C7_Witness ==
  /\ Matched
  /\ Count(MatchedRest, {"?", "!", ".", ",", ":", ";"}) > 0
  /\ result.end < ByteLen(s)
  /\ s[CharIndex(result.end)] \in {"?", "!", ".", ",", ":", ";"}

\* C8: a span contains no illegal character, and it ends at or before the
\* first illegal character after the separator, whatever follows it.
C8_IllegalStops ==
  Matched =>
    \A k \in 1..Len(s) :
      CodePoint[s[k]] \in IllegalCodePoints =>
        /\ ~(result.start <= ByteOffset(s, k) /\ ByteOffset(s, k) < result.end)
        /\ ByteOffset(s, k) >= AfterSeparator => result.end <= ByteOffset(s, k)

\* A span that ends at an illegal character which legal text follows, and
\* that starts after an illegal character.
C8_Witness ==
  /\ Matched
  /\ result.start > 0
  /\ result.end < ByteLen(s)
  /\ CodePoint[s[CharIndex(result.end)]] \in IllegalCodePoints
  /\ s[Len(s)] = "a"


\* The offset at which the text of SpecMixed has its scheme: 0, or 1 after
\* a space.
SchemeOffset == IF s[1] = " " THEN 1 ELSE 0

\* The scheme of the text starts with an ASCII letter (as a scheme of
\* RFC 3986 does).
SchemeStartsWithLetter ==
  CodePoint[s[SchemeOffset + 1]] \in (65..90) \cup (97..122)

\* C11: with no_proto = TRUE, for a text scheme `://` label `.` label of
\* letters and digits whose scheme starts with a letter, the call at the
\* `.` and the call at the `://` both return the span from the start of
\* the scheme to the end of the text.
C11_SameSpanAtDotAndScheme ==
  (Done /\ no_proto /\ SchemeStartsWithLetter)
    => result = Span(SchemeOffset, ByteLen(s))

\* The call at the `.` of a text with a digit in its scheme and in its
\* host has gone left past `//` and `:` to the start of the scheme.
C11_Witness ==
  /\ Done
  /\ no_proto
  /\ SeparatorAt = DotSeparator
  /\ s = <<"a", "1", ":", "/", "/", "1", "a", ".", "a">>
  /\ result = Span(0, 9)

\* The scalar values of the scheme characters: ASCII letters, digits,
\* `+`, `-`, `.`, and with no_proto also `/` and `:`.
LetterCodePoints == (65..90) \cup (97..122)

SchemeCodePoints ==
  LetterCodePoints \cup (48..57) \cup {43, 45, 46}
    \cup (IF no_proto THEN {47, 58} ELSE {})

\* The number of characters left of the separator, and the index of the
\* first character of the maximal run of scheme characters that ends at
\* the separator (LeftLen + 1 when the run is empty).
LeftLen == CharIndex(separator) - 1

RunStart ==
  CHOOSE k \in 1..(LeftLen + 1) :
    /\ \A j \in k..LeftLen : CodePoint[s[j]] \in SchemeCodePoints
    /\ k > 1 => CodePoint[s[k - 1]] \notin SchemeCodePoints

RunLetters ==
  {k \in RunStart..LeftLen : CodePoint[s[k]] \in LetterCodePoints}

\* The index of the leftmost ASCII letter of the run.
LeftmostLetter == CHOOSE k \in RunLetters : \A j \in RunLetters : k <= j

\* A call at a separator literal that only `b` follows: find_end finds an
\* end, so the result shows what find_start returned.
StartShown == Done /\ SeparatorAt # <<>> /\ Rest = <<"b">>

\* C12 as claimed: find_start returns the offset of the leftmost ASCII
\* letter of the run, and no-match when the run has no ASCII letter. The
\* claim is for either setting of no_proto; it is stated here for the
\* default one, FALSE.
C12_LeftmostLetter ==
  (StartShown /\ ~no_proto) =>
    IF RunLetters = {}
    THEN result = NoMatch
    ELSE result = Span(ByteOffset(s, LeftmostLetter), ByteLen(s))

\* C12 as amended: find_start returns no-match or the offset of the
\* leftmost ASCII letter of the run; no-match when the run has no ASCII
\* letter, and otherwise only when the character immediately before that
\* letter is a digit (with no_proto also `/` or `:`). Hence the character
\* at the start of a span is an ASCII letter and every character from
\* there to the separator is a scheme character.
C12_LeftmostLetterOrNoMatch ==
  StartShown =>
    /\ RunLetters = {} => result = NoMatch
    /\ result # NoMatch
         => result = Span(ByteOffset(s, LeftmostLetter), ByteLen(s))
    /\ (RunLetters # {} /\ result = NoMatch) =>
         /\ LeftmostLetter > 1
         /\ CodePoint[s[LeftmostLetter - 1]]
              \in (48..57) \cup (IF no_proto THEN {47, 58} ELSE {})
    /\ result.kind = "span" =>
         /\ CodePoint[s[CharIndex(result.start)]] \in LetterCodePoints
         /\ \A k \in CharIndex(result.start)..LeftLen :
              CodePoint[s[k]] \in SchemeCodePoints

\* `1.a://b` gives the span from the leftmost letter of the run `1.a`.
C12_Witness ==
  /\ StartShown
  /\ s = <<"1", ".", "a", ":", "/", "/", "b">>
  /\ separator = 3
  /\ result = Span(2, 7)

====
